---------------------------- MODULE Spec2Model ----------------------------
(***************************************************************************)
(* A model of drivers/mlcache/mlcache.c: the UCB1 page scoring that the    *)
(* mlcache tracepoint probe mlcache_pageget() runs on every page cache     *)
(* lookup, built with CONFIG_MLCACHE_ACTIVE.                               *)
(*                                                                         *)
(* Spec      lookups run one after the other, each as one step, between    *)
(*           steps of the host page cache (which owns page->mapping).      *)
(* SpecWrap  the same probe on one page, for as many lookups as it takes   *)
(*           items_in_cache to wrap around.                                *)
(* SpecConc  two lookup paths run the probe concurrently, each shared      *)
(*           counter update split into its load and its store.             *)
(* SpecLife  module load and unload around probe invocations.              *)
(***************************************************************************)
EXTENDS Integers, Sequences, FiniteSets

(* ------------------------------ bounds -------------------------------- *)

\* Lookups of one behaviour of Spec.
MaxRounds == 3

\* Lookups of one behaviour of SpecWrap: one more than 2^CounterBits.
MaxWrapRounds == 9

\* items_in_cache is a long (64 bits).  The model keeps it in CounterBits
\* bits, two's complement, so that its wrap-around is within reach.
CounterBits == 3

\* unsigned int is 32 bits wide; TLC's integers end at 2^31 - 1, so the
\* model keeps UINT_MAX at UIntBits bits.
UIntBits == 16

\* Probe invocations of one behaviour of SpecConc and of SpecLife.
MaxConcLookups == 3

\* The slots of the tree of SpecLong: one more than a batch of 4096.
TreeSlots == 4097

\* The stores of concurrent writers into the tree during a scan of SpecScan.
MaxWrites == 2

\* The rounds and the play counts upperBound() is evaluated at in SpecBound.
MaxStep == 30
MaxPlays == 5

(* ------------------------- program constants -------------------------- *)

MLCACHE_SCALE == 100

UINT_MAX == 2^UIntBits - 1

\* (unsigned long) ~0 stored into the long items_in_cache: all bits set.
ALL_ONES == -1

NULL == "NULL"

(* ----------------------------- the host ------------------------------- *)

\* struct page objects the host page cache hands to the probe.
Pages == {"a", "b", "c"}

\* What radix_tree_deref_slot() can return for a slot of mapping->page_tree:
\* nothing, an exceptional entry, the retry marker of a slot being moved, or
\* a page.
SlotValues == Pages \cup {"empty", "exc", "retry"}

\* The slots of mapping->page_tree, in index order.
Layouts ==
    { <<"a", "empty", "b", "exc", "c">>,
      <<"a", "exc", "empty", "c", "empty">> }

Threads == {1, 2}

VARIABLES
    hits,             \* static unsigned long hits
    misses,           \* static unsigned long misses
    t,                \* static unsigned long t
    weight_average,   \* static long weight_average
    items_in_cache,   \* static long items_in_cache
    mlcache_score,    \* page->mlcache_score, per page
    mlcache_plays,    \* page->mlcache_plays, per page
    page_mapping,     \* page->mapping != NULL, per page
    page_tree,        \* mapping->page_tree, slot by slot
    writes,           \* SpecScan: stores of writers into page_tree so far
    last,             \* history: the probe invocation that just completed
    pc,               \* SpecConc, SpecLife: where each lookup path is
    loc,              \* SpecConc, SpecLife: each lookup path's locals
    started,          \* SpecConc, SpecLife: probe invocations begun
    life,             \* SpecLife: where module load / unload is
    registered,       \* SpecLife: the probe is on the tracepoint
    proc_entry,       \* SpecLife: /proc/mlcache_stats exists
    init_ret          \* SpecLife: what mlcache_init() returned

vars == << hits, misses, t, weight_average, items_in_cache, mlcache_score,
           mlcache_plays, page_mapping, page_tree, writes, last, pc, loc,
           started,
           life, registered, proc_entry, init_ret >>

engineVars == << hits, misses, t, weight_average, items_in_cache,
                 mlcache_score >>
hostVars == << mlcache_plays, page_mapping, page_tree, writes >>
concVars == << pc, loc, started >>
lifeVars == << life, registered, proc_entry, init_ret >>

(* --------------------------- arithmetic ------------------------------- *)

\* C's integer division: the quotient is truncated toward zero.  A zero
\* divisor is a divide error; the callers record the divisor they used, and
\* the quotient is then left at 0.
CDiv(a, b) ==
    LET Abs(x) == IF x < 0 THEN -x ELSE x
    IN  IF b = 0 THEN 0
        ELSE IF (a < 0) = (b < 0) THEN Abs(a) \div Abs(b)
        ELSE -(Abs(a) \div Abs(b))

\* A value stored into items_in_cache: reduced to CounterBits bits, signed
\* (the kernel is built with -fno-strict-overflow: the increment wraps).
ToLong(x) ==
    ((x + 2^(CounterBits - 1)) % 2^CounterBits) - 2^(CounterBits - 1)

\* The largest value of items_in_cache's type (long) in CounterBits bits.
LONG_MAX == 2^(CounterBits - 1) - 1

\* ilog2(n): the index of the highest set bit of n (n >= 1).
RECURSIVE ilog2(_)
ilog2(n) == IF n <= 1 THEN 0 ELSE 1 + ilog2(n \div 2)

\* int_sqrt(x): the integer square root, found a binary digit at a time
\* from the highest even power of two not above x.
RECURSIVE int_sqrt_loop(_, _, _)
int_sqrt_loop(x, y, m) ==
    IF m = 0 THEN y
    ELSE LET b == y + m
             y1 == y \div 2
         IN  IF x >= b THEN int_sqrt_loop(x - b, y1 + m, m \div 4)
                       ELSE int_sqrt_loop(x, y1, m \div 4)

int_sqrt(x) ==
    IF x <= 1 THEN x
    ELSE int_sqrt_loop(x, 0, 2^((ilog2(x) \div 2) * 2))


(* ------------------------- Bound Estimator ---------------------------- *)

\* Mutant: the logarithm is multiplied by the play count.
upperBound_times_plays(step, numPlays) ==
    IF step # 0 /\ numPlays # 0
    THEN int_sqrt((MLCACHE_SCALE * MLCACHE_SCALE * 2
                   * ilog2(MLCACHE_SCALE * MLCACHE_SCALE * (step + 1)))
                  * numPlays)
    ELSE 0

upperBound(step, numPlays) ==
    IF step # 0 /\ numPlays # 0
    THEN int_sqrt((MLCACHE_SCALE * MLCACHE_SCALE * 2
                   * ilog2(MLCACHE_SCALE * MLCACHE_SCALE * (step + 1)))
                  \div numPlays)
    ELSE 0

(* -------------------------- Score Updater ----------------------------- *)

\* The operators below thread the memory a probe invocation writes through
\* a record sc: sc.score (every page's mlcache_score), sc.avg
\* (weight_average) and the locals of the scan that is under way.  tt is
\* the value of t the invocation reads.

\* Mutant: the bonus of the round before is taken at this round.
update_page_score_same_round(sc, page, by, hit, tt) ==
    IF ~page_mapping[page] THEN sc
    ELSE IF hit
    THEN LET s1 == sc.score[page] - by
             n  == mlcache_plays[page]
         IN  [sc EXCEPT !.score[page] =
                 s1 + upperBound(tt, n) - upperBound(tt, n) * n]
    ELSE LET avg == IF sc.avg = UINT_MAX THEN 0 ELSE sc.avg
         IN  [sc EXCEPT !.avg = avg, !.score[page] = avg]

\* Mutant: the page's mapping is not looked at.
update_page_score_unchecked(sc, page, by, hit, tt) ==
    IF hit
    THEN LET s1 == sc.score[page] - by
             n  == mlcache_plays[page]
         IN  [sc EXCEPT !.score[page] =
                 s1 + upperBound(tt - 1, n) - upperBound(tt, n) * n]
    ELSE LET avg == IF sc.avg = UINT_MAX THEN 0 ELSE sc.avg
         IN  [sc EXCEPT !.avg = avg, !.score[page] = avg]

update_page_score(sc, page, by, hit, tt) ==
    IF ~page_mapping[page] THEN sc
    ELSE IF hit
    THEN LET s1 == sc.score[page] - by
             n  == mlcache_plays[page]
         IN  [sc EXCEPT !.score[page] =
                 s1 + upperBound(tt - 1, n) - upperBound(tt, n) * n]
    ELSE LET avg == IF sc.avg = UINT_MAX THEN 0 ELSE sc.avg
         IN  [sc EXCEPT !.avg = avg, !.score[page] = avg]

(* ----------------------- Global Average Tracker ----------------------- *)

\* Mutant: no test of items_in_cache against 0.
update_average_unguarded(score, avg, items) ==
    [items |-> items, divisor |-> items, avg |-> avg + CDiv(score, items)]

\* update_average() on the page's score, with items_in_cache = items on
\* entry: the new items_in_cache, the new weight_average, and the divisor.
update_average(score, avg, items) ==
    LET n == IF items = 0 THEN ALL_ONES ELSE items
    IN  [items |-> n, divisor |-> n, avg |-> avg + CDiv(score, n)]

\* Mutant: the average is updated before items_in_cache is incremented.
count_and_average_late(score, avg, items) ==
    LET ua == update_average(score, avg, items)
    IN  [ua EXCEPT !.items = ToLong(@ + 1)]

\* The tail of mlcache_pageget(): items_in_cache++; update_average(page).
count_and_average(score, avg, items) ==
    update_average(score, avg, ToLong(items + 1))

(* ------------------------- Collection Scanner ------------------------- *)

\* checked % 4096: the scan yields after every RESCHED_BATCH pages it scored.
RESCHED_BATCH == 4096

\* The locals of a scan about to start.
ScanStart(score, avg) ==
    [score |-> score, avg |-> avg, i |-> 1, checked |-> 0, penalize |-> 0,
     done |-> FALSE, visits |-> 0, run |-> 0, yields |-> 0,
     match |-> "none"]

\* History kept in the scan's record: visits counts the slots the scans of
\* the invocation looked at, run those looked at since the scan began or
\* last yielded, yields the calls of cond_resched_rcu().

\* Mutant: the iteration stays on the slot.
NextSlot_stuck(sc) == [sc EXCEPT !.visits = @ + 1, !.run = @ + 1]

NextSlot(sc) == [sc EXCEPT !.i = @ + 1, !.visits = @ + 1, !.run = @ + 1]

\* radix_tree_iter_retry(): the same slot is looked up again.
RetrySlot(sc) == [sc EXCEPT !.visits = @ + 1, !.run = @ + 1]

\* The tail of both loops' bodies: a page was scored.
Checked(sc) ==
    LET c == sc.checked + 1
    IN  IF c % RESCHED_BATCH # 0
        THEN [NextSlot(sc) EXCEPT !.checked = c]
        ELSE [NextSlot(sc) EXCEPT !.checked = c, !.yields = @ + 1,
                                  !.run = 0]

\* One pass of the body of penalize_pages()'s loop, the slot holding p.
penalize_on(sc, p, page, tt) ==
    IF p = "empty" THEN NextSlot(sc)
    ELSE IF p = "retry" THEN RetrySlot(sc)
    ELSE IF p = "exc" THEN NextSlot(sc)
    ELSE IF page_mapping[p] THEN NextSlot(sc)
    ELSE IF p = page THEN NextSlot(sc)
    ELSE Checked(update_page_score(sc, p, -MLCACHE_SCALE, FALSE, tt))

\* One pass of the body of penalize_pages()'s loop, on slot sc.i.
penalize_slot(sc, page, tt) == penalize_on(sc, page_tree[sc.i], page, tt)

RECURSIVE penalize_loop(_, _, _)
penalize_loop(sc, page, tt) ==
    IF sc.i > Len(page_tree) THEN sc
    ELSE penalize_loop(penalize_slot(sc, page, tt), page, tt)

penalize_pages(sc, page, mapping, tt) ==
    IF ~mapping THEN sc
    ELSE LET r == penalize_loop(
                      [sc EXCEPT !.i = 1, !.checked = 0, !.run = 0],
                      page, tt)
         IN  [r EXCEPT !.done = TRUE]

\* One pass of the body of update_cache_scores()'s loop, the slot holding p.
first_pass_on(sc, p, page, tt) ==
    IF p = "empty" THEN NextSlot(sc)
    ELSE IF p = "retry" THEN RetrySlot(sc)
    ELSE IF p = "exc" THEN NextSlot(sc)
    ELSE IF page_mapping[p] THEN NextSlot(sc)
    ELSE IF p = page
    THEN IF sc.score[p] = 0
         THEN [update_page_score(sc, p, 0, FALSE, tt)
                 EXCEPT !.done = TRUE, !.visits = @ + 1, !.run = @ + 1,
                        !.match = "zero"]
         ELSE [sc EXCEPT !.penalize = 1, !.done = TRUE,
                         !.visits = @ + 1, !.run = @ + 1,
                         !.match = "nonzero"]
    ELSE Checked(update_page_score(sc, p, -MLCACHE_SCALE, FALSE, tt))

\* One pass of the body of update_cache_scores()'s loop, on slot sc.i.
first_pass_slot(sc, page, tt) == first_pass_on(sc, page_tree[sc.i], page, tt)

RECURSIVE first_pass_loop(_, _, _)
first_pass_loop(sc, page, tt) ==
    IF sc.done \/ sc.i > Len(page_tree) THEN sc
    ELSE first_pass_loop(first_pass_slot(sc, page, tt), page, tt)

\* Mutant: a hit does not return before the scan.
update_cache_scores_no_return(sc, page, mapping, hit, tt) ==
    LET h == IF hit THEN update_page_score(sc, page, MLCACHE_SCALE, hit, tt)
             ELSE sc
    IN  IF ~mapping THEN h
        ELSE LET r == first_pass_loop(h, page, tt)
             IN  IF r.penalize # 0 THEN penalize_pages(r, page, mapping, tt)
                 ELSE r

\* update_cache_scores(page, mapping, hit); mapping is the address_space
\* argument being non-null.
update_cache_scores(sc, page, mapping, hit, tt) ==
    IF hit THEN update_page_score(sc, page, MLCACHE_SCALE, hit, tt)
    ELSE IF ~mapping THEN sc
    ELSE LET r == first_pass_loop(sc, page, tt)
         IN  IF r.penalize # 0 THEN penalize_pages(r, page, mapping, tt)
             ELSE r

(* --------------------------- Engine Facade ---------------------------- *)

\* What `last` keeps of a probe invocation: its arguments, the memory it
\* found (t, score, plays, resident, avg, items), the scan it made, the
\* average as update_average() found it and the divisor it used.
LastOf(page, mapping, hit, sc, ua) ==
    [op |-> "lookup", page |-> page, hit |-> hit, coll |-> mapping,
     t |-> t, hits |-> hits, misses |-> misses,
     score |-> mlcache_score, plays |-> mlcache_plays,
     resident |-> page_mapping, avg |-> weight_average,
     items |-> items_in_cache, avgMid |-> sc.avg, visits |-> sc.visits,
     match |-> sc.match, divided |-> page # NULL, divisor |-> ua.divisor,
     bound |-> 0,
     calls |-> IF page = NULL THEN last.calls ELSE last.calls + 1]

NoLast ==
    [op |-> "none", page |-> NULL, hit |-> FALSE, coll |-> FALSE,
     t |-> 0, hits |-> 0, misses |-> 0,
     score |-> [p \in Pages |-> 0], plays |-> [p \in Pages |-> 0],
     resident |-> [p \in Pages |-> FALSE], avg |-> 0,
     items |-> 0, avgMid |-> 0, visits |-> 0, match |-> "none",
     divided |-> FALSE, divisor |-> 0, bound |-> 0, calls |-> 0]

\* The history once something other than the probe has run: the count of the
\* probe's invocations on a page is kept.
Forget == [NoLast EXCEPT !.calls = last.calls]

\* Mutant: hits or misses is incremented before page is tested for NULL.
mlcache_pageget_count_first(page, mapping, hit) ==
    IF page = NULL
    THEN /\ last' = LastOf(page, mapping, hit,
                           ScanStart(mlcache_score, weight_average),
                           [divisor |-> 0])
         /\ hits' = IF hit THEN hits + 1 ELSE hits
         /\ misses' = IF hit THEN misses ELSE misses + 1
         /\ UNCHANGED << t, weight_average, items_in_cache, mlcache_score >>
    ELSE LET tt == t + 1
             sc == update_cache_scores(
                       ScanStart(mlcache_score, weight_average),
                       page, mapping, hit, tt)
             ua == count_and_average(sc.score[page], sc.avg, items_in_cache)
         IN  /\ hits' = IF hit THEN hits + 1 ELSE hits
             /\ misses' = IF hit THEN misses ELSE misses + 1
             /\ t' = tt
             /\ mlcache_score' = sc.score
             /\ items_in_cache' = ua.items
             /\ weight_average' = ua.avg
             /\ last' = LastOf(page, mapping, hit, sc, ua)

\* mlcache_pageget(data, page, mapping, hit), start to end.
mlcache_pageget(page, mapping, hit) ==
    IF page = NULL
    THEN /\ last' = LastOf(page, mapping, hit,
                           ScanStart(mlcache_score, weight_average),
                           [divisor |-> 0])
         /\ UNCHANGED engineVars
    ELSE LET tt == t + 1
             sc == update_cache_scores(
                       ScanStart(mlcache_score, weight_average),
                       page, mapping, hit, tt)
             ua == count_and_average(sc.score[page], sc.avg, items_in_cache)
         IN  /\ hits' = IF hit THEN hits + 1 ELSE hits
             /\ misses' = IF hit THEN misses ELSE misses + 1
             /\ t' = tt
             /\ mlcache_score' = sc.score
             /\ items_in_cache' = ua.items
             /\ weight_average' = ua.avg
             /\ last' = LastOf(page, mapping, hit, sc, ua)

(* ------------------------------ the host ------------------------------ *)

\* The host removes a page from the page cache: page->mapping = NULL.  Its
\* page_tree slot keeps pointing at it.
HostEvict(p) ==
    /\ page_mapping[p]
    /\ page_mapping' = [page_mapping EXCEPT ![p] = FALSE]
    /\ UNCHANGED << mlcache_plays, page_tree, writes >>

\* The host adds a page to the page cache: page->mapping = mapping.
HostAdmit(p) ==
    /\ ~page_mapping[p]
    /\ page_mapping' = [page_mapping EXCEPT ![p] = TRUE]
    /\ UNCHANGED << mlcache_plays, page_tree, writes >>

PlayCounts == { [p \in Pages |-> CASE p = "a" -> 0 [] p = "b" -> 1
                                   [] OTHER -> 2] }

(* --------------------------- specifications --------------------------- *)

\* After mlcache_init(): hits = misses = t = 0, and the static initialisers
\* of weight_average and items_in_cache.
InitEngine ==
    /\ hits = 0
    /\ misses = 0
    /\ t = 0
    /\ weight_average = 0
    /\ items_in_cache = 0

InitHost ==
    /\ mlcache_score = [p \in Pages |-> 0]
    /\ mlcache_plays \in PlayCounts
    /\ page_mapping = [p \in Pages |-> TRUE]
    /\ page_tree \in Layouts
    /\ writes = 0

InitIdle ==
    /\ pc = [th \in Threads |-> "idle"]
    /\ loc = [th \in Threads |-> [page |-> NULL, hit |-> FALSE, reg |-> 0]]
    /\ started = 0

Init ==
    /\ InitEngine
    /\ InitHost
    /\ InitIdle
    /\ last = NoLast
    /\ life = "live"
    /\ registered = TRUE
    /\ proc_entry = TRUE
    /\ init_ret = 0

Lookup ==
    /\ t < MaxRounds
    /\ \E page \in Pages \cup {NULL}, mapping \in BOOLEAN, hit \in BOOLEAN :
           mlcache_pageget(page, mapping, hit)
    /\ UNCHANGED << hostVars, concVars, lifeVars >>

Host ==
    /\ \E p \in Pages : HostEvict(p) \/ HostAdmit(p)
    /\ last' = Forget
    /\ UNCHANGED << engineVars, concVars, lifeVars >>

Next == Lookup \/ Host

Spec == Init /\ [][Next]_vars

\* Lookups of page "a" alone, hit or miss, until items_in_cache has wrapped.
LookupWrap ==
    /\ t < MaxWrapRounds
    /\ \E mapping \in BOOLEAN, hit \in BOOLEAN :
           mlcache_pageget("a", mapping, hit)
    /\ UNCHANGED << hostVars, concVars, lifeVars >>

HostWrap ==
    /\ HostEvict("a") \/ HostAdmit("a")
    /\ last' = Forget
    /\ UNCHANGED << engineVars, concVars, lifeVars >>

NextWrap == LookupWrap \/ HostWrap

SpecWrap == Init /\ [][NextWrap]_vars

(* ------------------- concurrent lookup paths -------------------------- *)

\* The probe runs on whatever CPU does the lookup, with no lock and no
\* atomic operation: hits++, misses++, t++ and items_in_cache++ are each a
\* load and a store, and other paths run in between.  loc[th].reg is the
\* register the path keeps the loaded value in.

At(th, where) == pc[th] = where

Goto(th, where) == pc' = [pc EXCEPT ![th] = where]

\* The tracepoint fires on path th: mlcache_pageget(data, page, mapping, hit)
\* is entered with a page.
Begin(th) ==
    /\ At(th, "idle")
    /\ started < MaxConcLookups
    /\ \E page \in Pages, hit \in BOOLEAN :
           loc' = [loc EXCEPT ![th] = [page |-> page, hit |-> hit, reg |-> 0]]
    /\ started' = started + 1
    /\ Goto(th, "count_ld")
    /\ UNCHANGED << hostVars, lifeVars, engineVars, last >>

\* hits++ or misses++: the load.
CountLoad(th) ==
    /\ At(th, "count_ld")
    /\ loc' = [loc EXCEPT ![th].reg = IF loc[th].hit THEN hits ELSE misses]
    /\ Goto(th, "count_st")
    /\ UNCHANGED << hostVars, lifeVars, engineVars, last, started >>

\* hits++ or misses++: the store.
CountStore(th) ==
    /\ At(th, "count_st")
    /\ hits' = IF loc[th].hit THEN loc[th].reg + 1 ELSE hits
    /\ misses' = IF loc[th].hit THEN misses ELSE loc[th].reg + 1
    /\ Goto(th, "t_ld")
    /\ UNCHANGED << hostVars, lifeVars, t, weight_average, items_in_cache, mlcache_score, last,
                    loc, started >>

\* t++: the load.
RoundLoad(th) ==
    /\ At(th, "t_ld")
    /\ loc' = [loc EXCEPT ![th].reg = t]
    /\ Goto(th, "t_st")
    /\ UNCHANGED << hostVars, lifeVars, engineVars, last, started >>

\* t++: the store.
RoundStore(th) ==
    /\ At(th, "t_st")
    /\ t' = loc[th].reg + 1
    /\ Goto(th, "scores")
    /\ UNCHANGED << hostVars, lifeVars, hits, misses, weight_average, items_in_cache,
                    mlcache_score, last, loc, started >>

\* update_cache_scores(page, mapping, hit), with t as it is read now.
Scores(th) ==
    /\ At(th, "scores")
    /\ LET sc == update_cache_scores(
                     ScanStart(mlcache_score, weight_average),
                     loc[th].page, TRUE, loc[th].hit, t)
       IN  /\ mlcache_score' = sc.score
           /\ weight_average' = sc.avg
    /\ Goto(th, "items_ld")
    /\ UNCHANGED << hostVars, lifeVars, hits, misses, t, items_in_cache, last, loc, started >>

\* items_in_cache++: the load.
ItemsLoad(th) ==
    /\ At(th, "items_ld")
    /\ loc' = [loc EXCEPT ![th].reg = items_in_cache]
    /\ Goto(th, "items_st")
    /\ UNCHANGED << hostVars, lifeVars, engineVars, last, started >>

\* items_in_cache++: the store.
ItemsStore(th) ==
    /\ At(th, "items_st")
    /\ items_in_cache' = ToLong(loc[th].reg + 1)
    /\ Goto(th, "avg_test")
    /\ UNCHANGED << hostVars, lifeVars, hits, misses, t, weight_average, mlcache_score, last,
                    loc, started >>

\* update_average(): if (items_in_cache == 0) items_in_cache = ~0.  The
\* register keeps the value the test left.
AverageTest(th) ==
    /\ At(th, "avg_test")
    /\ LET n == IF items_in_cache = 0 THEN ALL_ONES ELSE items_in_cache
       IN  /\ items_in_cache' = n
           /\ loc' = [loc EXCEPT ![th].reg = n]
    /\ Goto(th, "avg_div")
    /\ UNCHANGED << hostVars, lifeVars, hits, misses, t, weight_average, mlcache_score, last,
                    started >>

\* update_average(): weight_average += page->mlcache_score / items_in_cache.
\* The build may divide by the register of the test or load items_in_cache
\* again: d is either.
AverageDivide(th) ==
    /\ At(th, "avg_div")
    /\ \E d \in {loc[th].reg, items_in_cache} :
           /\ weight_average' =
                  weight_average + CDiv(mlcache_score[loc[th].page], d)
           /\ last' = [NoLast EXCEPT !.op = "lookup",
                                     !.page = loc[th].page,
                                     !.hit = loc[th].hit,
                                     !.divided = TRUE,
                                     !.divisor = d]
    /\ Goto(th, "idle")
    /\ UNCHANGED << hostVars, lifeVars, hits, misses, t, items_in_cache, mlcache_score, loc,
                    started >>

NextConc ==
    \/ \E th \in Threads : Begin(th)
    \/ \E th \in Threads : CountLoad(th)
    \/ \E th \in Threads : CountStore(th)
    \/ \E th \in Threads : RoundLoad(th)
    \/ \E th \in Threads : RoundStore(th)
    \/ \E th \in Threads : Scores(th)
    \/ \E th \in Threads : ItemsLoad(th)
    \/ \E th \in Threads : ItemsStore(th)
    \/ \E th \in Threads : AverageTest(th)
    \/ \E th \in Threads : AverageDivide(th)

SpecConc == Init /\ [][NextConc]_vars

(* --- SpecNear: concurrent lookups once items_in_cache is about to wrap --- *)

\* Miss lookups of page "a", one after the other, until items_in_cache is
\* two increments short of wrapping to 0.
LookupNear ==
    /\ started = 0
    /\ t < 2^CounterBits - 2
    /\ \E mapping \in BOOLEAN : mlcache_pageget("a", mapping, FALSE)
    /\ UNCHANGED << hostVars, concVars, lifeVars >>

\* Then one invocation on each path, of page "a".
BeginNear(th) ==
    /\ At(th, "idle")
    /\ started < Cardinality(Threads)
    /\ \E hit \in BOOLEAN :
           loc' = [loc EXCEPT ![th] = [page |-> "a", hit |-> hit, reg |-> 0]]
    /\ started' = started + 1
    /\ Goto(th, "count_ld")
    /\ UNCHANGED << hostVars, lifeVars, engineVars, last >>

NextNear ==
    \/ LookupNear
    \/ \E th \in Threads : BeginNear(th)
    \/ \E th \in Threads : CountLoad(th)
    \/ \E th \in Threads : CountStore(th)
    \/ \E th \in Threads : RoundLoad(th)
    \/ \E th \in Threads : RoundStore(th)
    \/ \E th \in Threads : Scores(th)
    \/ \E th \in Threads : ItemsLoad(th)
    \/ \E th \in Threads : ItemsStore(th)
    \/ \E th \in Threads : AverageTest(th)
    \/ \E th \in Threads : AverageDivide(th)

SpecNear == Init /\ [][NextNear]_vars

(* ----------------------- module load and unload ----------------------- *)

\* Before insmod: nothing is registered, the statics hold their initialisers.
InitLife ==
    /\ InitEngine
    /\ InitHost
    /\ InitIdle
    /\ last = NoLast
    /\ life = "unloaded"
    /\ registered = FALSE
    /\ proc_entry = FALSE
    /\ init_ret = 0

\* mlcache_init(), start to end; created is what proc_create() gave.
mlcache_init(created) ==
    /\ life = "unloaded"
    /\ IF ~created
       THEN /\ init_ret' = 0           \* return NULL
            /\ life' = "failed"
            /\ UNCHANGED << hits, misses, t, registered, proc_entry >>
       ELSE /\ proc_entry' = TRUE
            /\ hits' = 0
            /\ misses' = 0
            /\ t' = 0
            /\ registered' = TRUE
            /\ init_ret' = 0
            /\ life' = "live"
    /\ UNCHANGED << weight_average, items_in_cache, mlcache_score, last,
                    hostVars, concVars >>

ModuleInit == \E created \in BOOLEAN : mlcache_init(created)

\* The tracepoint fires on path th and finds the probe registered: the
\* probe is entered.
ProbeEnter(th) ==
    /\ registered
    /\ At(th, "idle")
    /\ started < MaxConcLookups
    /\ \E page \in Pages, hit \in BOOLEAN :
           loc' = [loc EXCEPT ![th] = [page |-> page, hit |-> hit, reg |-> 0]]
    /\ started' = started + 1
    /\ Goto(th, "probe")
    /\ UNCHANGED << engineVars, last, hostVars, lifeVars >>

\* The probe runs to its end on path th.
ProbeRun(th) ==
    /\ At(th, "probe")
    /\ mlcache_pageget(loc[th].page, TRUE, loc[th].hit)
    /\ Goto(th, "idle")
    /\ UNCHANGED << loc, started, hostVars, lifeVars >>

\* mlcache_exit(): remove_proc_entry("mlcache_stats", NULL).
ExitRemoveProc ==
    /\ life = "live"
    /\ proc_entry' = FALSE
    /\ life' = "exit_proc"
    /\ UNCHANGED << registered, init_ret, engineVars, last, hostVars,
                    concVars >>

\* Mutant: mlcache_exit() returns after the unregistration.
ExitUnregister_and_return ==
    /\ life = "exit_proc"
    /\ registered' = FALSE
    /\ life' = "gone"
    /\ UNCHANGED << proc_entry, init_ret, engineVars, last, hostVars,
                    concVars >>

\* mlcache_exit(): unregister_trace_mlcache_event(mlcache_pageget, NULL).
ExitUnregister ==
    /\ life = "exit_proc"
    /\ registered' = FALSE
    /\ life' = "exit_unreg"
    /\ UNCHANGED << proc_entry, init_ret, engineVars, last, hostVars,
                    concVars >>

\* mlcache_exit(): tracepoint_synchronize_unregister() returns once every
\* probe invocation that was under way has ended; mlcache_exit() returns.
ExitSynchronize ==
    /\ life = "exit_unreg"
    /\ \A th \in Threads : At(th, "idle")
    /\ life' = "gone"
    /\ UNCHANGED << registered, proc_entry, init_ret, engineVars, last,
                    hostVars, concVars >>

NextLife ==
    \/ ModuleInit
    \/ \E th \in Threads : ProbeEnter(th)
    \/ \E th \in Threads : ProbeRun(th)
    \/ ExitRemoveProc
    \/ ExitUnregister
    \/ ExitSynchronize

SpecLife == InitLife /\ [][NextLife]_vars

(* ------------------------ a scan, slot by slot ------------------------ *)

\* One miss lookup on path th, its scans taken a slot at a time.  loc[th]
\* holds the locals of the invocation: sc (slot index, checked, penalize and
\* the history of the scan record), slots (the slots the iteration goes
\* over) and history (whether the history counters are kept).

Scanner == 1

\* The slot at index i: the tree repeats page_tree's layout when it has more
\* slots than page_tree.
SlotAt(i) == page_tree[((i - 1) % Len(page_tree)) + 1]

\* The locals of a scan record, without the copies of the memory it writes.
Locals(sc, history) ==
    [sc EXCEPT !.score = [p \in Pages |-> 0], !.avg = 0,
               !.visits = IF history THEN @ ELSE 0,
               !.run = IF history THEN @ ELSE 0]

\* mlcache_pageget(data, page, mapping, false) up to rcu_read_lock() in
\* update_cache_scores(): misses++, t++, mapping != NULL.
ScanEnter(th, page, slots, history) ==
    /\ At(th, "idle")
    /\ misses' = misses + 1
    /\ t' = t + 1
    /\ loc' = [loc EXCEPT ![th] =
                  [page |-> page, hit |-> FALSE, reg |-> 0, slots |-> slots,
                   history |-> history,
                   sc |-> Locals(ScanStart(mlcache_score, weight_average),
                                 history)]]
    /\ started' = started + 1
    /\ last' = NoLast
    /\ Goto(th, "first_pass")
    /\ UNCHANGED << hits, weight_average, items_in_cache, mlcache_score,
                    hostVars, lifeVars >>

\* The scan record of path th over the memory as it is now.
ScanOf(th) ==
    [loc[th].sc EXCEPT !.score = mlcache_score, !.avg = weight_average]

ScanWrite(th, sc, where) ==
    /\ mlcache_score' = sc.score
    /\ weight_average' = sc.avg
    /\ loc' = [loc EXCEPT ![th].sc = Locals(sc, loc[th].history)]
    /\ Goto(th, where)
    /\ UNCHANGED << hits, misses, t, items_in_cache, last, started,
                    hostVars, lifeVars >>

\* update_cache_scores(): one pass of the loop's body.
FirstPassStep(th) ==
    /\ At(th, "first_pass")
    /\ ~loc[th].sc.done
    /\ loc[th].sc.i <= loc[th].slots
    /\ ScanWrite(th, first_pass_on(ScanOf(th), SlotAt(loc[th].sc.i),
                                   loc[th].page, t),
                 "first_pass")

\* update_cache_scores(): the loop is left; rcu_read_unlock(); then
\* penalize_pages() up to its rcu_read_lock() if penalize is set.
FirstPassEnd(th) ==
    /\ At(th, "first_pass")
    /\ loc[th].sc.done \/ loc[th].sc.i > loc[th].slots
    /\ IF loc[th].sc.penalize # 0
       THEN ScanWrite(th, [ScanOf(th) EXCEPT !.i = 1, !.checked = 0,
                                             !.run = 0],
                      "penalize")
       ELSE ScanWrite(th, ScanOf(th), "fold")

\* penalize_pages(): one pass of the loop's body.
PenalizeStep(th) ==
    /\ At(th, "penalize")
    /\ loc[th].sc.i <= loc[th].slots
    /\ ScanWrite(th, penalize_on(ScanOf(th), SlotAt(loc[th].sc.i),
                                 loc[th].page, t),
                 "penalize")

\* penalize_pages(): the loop is left; rcu_read_unlock().
PenalizeEnd(th) ==
    /\ At(th, "penalize")
    /\ loc[th].sc.i > loc[th].slots
    /\ ScanWrite(th, ScanOf(th), "fold")

\* The tail of mlcache_pageget(): items_in_cache++; update_average(page).
ScanFold(th) ==
    /\ At(th, "fold")
    /\ LET ua == count_and_average(mlcache_score[loc[th].page],
                                   weight_average, items_in_cache)
       IN  /\ items_in_cache' = ua.items
           /\ weight_average' = ua.avg
           /\ last' = [NoLast EXCEPT !.op = "lookup",
                                     !.page = loc[th].page,
                                     !.coll = TRUE,
                                     !.visits = loc[th].sc.visits,
                                     !.match = loc[th].sc.match,
                                     !.divided = TRUE,
                                     !.divisor = ua.divisor]
    /\ Goto(th, "idle")
    /\ UNCHANGED << hits, misses, t, mlcache_score, loc, started, hostVars,
                    lifeVars >>

\* Inside rcu_read_lock() ... rcu_read_unlock() of either scan.
InScan(th) == pc[th] \in {"first_pass", "penalize"}

(* --- SpecLong: a miss lookup of page "b" over a tree of TreeSlots slots --- *)

\* Before the lookup: a hit lookup of "b" at most, and the host's evictions.
LongHit ==
    /\ t = 0
    /\ started = 0
    /\ mlcache_pageget("b", TRUE, TRUE)
    /\ UNCHANGED << hostVars, concVars, lifeVars >>

LongHost ==
    /\ started = 0
    /\ \E p \in Pages : HostEvict(p) \/ HostAdmit(p)
    /\ last' = NoLast
    /\ UNCHANGED << engineVars, concVars, lifeVars >>

LongEnter ==
    /\ started = 0
    /\ ScanEnter(Scanner, "b", TreeSlots, TRUE)

NextLong ==
    \/ LongHit
    \/ LongHost
    \/ LongEnter
    \/ FirstPassStep(Scanner)
    \/ FirstPassEnd(Scanner)
    \/ PenalizeStep(Scanner)
    \/ PenalizeEnd(Scanner)
    \/ ScanFold(Scanner)

SpecLong == Init /\ [][NextLong]_vars

(* --- SpecScan: a miss lookup of page "b" while writers change the tree --- *)

\* A writer stores into a slot while the scan is under way: the retry marker
\* of a slot being moved, or nothing (the entry is deleted).
WriterMark ==
    /\ InScan(Scanner)
    /\ writes < MaxWrites
    /\ \E i \in 1..Len(page_tree), v \in {"retry", "empty"} :
           /\ page_tree[i] \notin {"retry", "empty"}
           /\ page_tree' = [page_tree EXCEPT ![i] = v]
    /\ writes' = writes + 1
    /\ UNCHANGED << mlcache_plays, page_mapping, engineVars, concVars,
                    lifeVars, last >>

\* The writer completes the move: the slot holds an entry again, or nothing.
WriterSettle ==
    /\ \E i \in 1..Len(page_tree) :
           /\ page_tree[i] = "retry"
           /\ \E v \in {"empty", "exc"}
                       \cup {p \in Pages :
                                \A j \in 1..Len(page_tree) : page_tree[j] # p} :
                  page_tree' = [page_tree EXCEPT ![i] = v]
    /\ UNCHANGED << mlcache_plays, page_mapping, writes, engineVars, concVars,
                    lifeVars, last >>

ScanBegin ==
    /\ started = 0
    /\ ScanEnter(Scanner, "b", Len(page_tree), FALSE)

\* A step of the scanning path inside or at the end of a scan.
ScanStep ==
    \/ FirstPassStep(Scanner)
    \/ FirstPassEnd(Scanner)
    \/ PenalizeStep(Scanner)
    \/ PenalizeEnd(Scanner)

NextScan ==
    \/ LongHit
    \/ LongHost
    \/ ScanBegin
    \/ FirstPassStep(Scanner)
    \/ FirstPassEnd(Scanner)
    \/ PenalizeStep(Scanner)
    \/ PenalizeEnd(Scanner)
    \/ ScanFold(Scanner)
    \/ WriterMark
    \/ WriterSettle

\* The scanning path keeps running, and a writer that has put a retry marker
\* completes its move.
SpecScan ==
    Init /\ [][NextScan]_vars /\ WF_vars(ScanStep) /\ WF_vars(WriterSettle)

(* ------------- lookups from a weight_average at its guard ------------- *)

\* mlcache_pageget() as a function of the weight_average it starts from: the
\* static initialiser, or the value update_page_score() tests for.
AverageStarts == {0, UINT_MAX}

InitAvg ==
    /\ hits = 0
    /\ misses = 0
    /\ t = 0
    /\ weight_average \in AverageStarts
    /\ items_in_cache = 0
    /\ InitHost
    /\ InitIdle
    /\ last = NoLast
    /\ life = "live"
    /\ registered = TRUE
    /\ proc_entry = TRUE
    /\ init_ret = 0

SpecAvg == InitAvg /\ [][Next]_vars

(* ------------------------ the bound on its own ------------------------ *)

\* upperBound(step, numPlays) at every round up to MaxStep and every play
\* count up to MaxPlays.
InitBound ==
    /\ hits = 0
    /\ misses = 0
    /\ t \in 0..MaxStep
    /\ weight_average = 0
    /\ items_in_cache = 0
    /\ mlcache_score = [p \in Pages |-> 0]
    /\ mlcache_plays \in { [p \in Pages |-> n] : n \in 0..MaxPlays }
    /\ page_mapping = [p \in Pages |-> TRUE]
    /\ page_tree \in Layouts
    /\ writes = 0
    /\ InitIdle
    /\ last = NoLast
    /\ life = "live"
    /\ registered = TRUE
    /\ proc_entry = TRUE
    /\ init_ret = 0

\* upperBound(t, page->mlcache_plays) is evaluated and kept in last.bound.
BoundApply ==
    /\ last.op = "none"
    /\ \E page \in Pages :
           last' = [NoLast EXCEPT !.op = "bound", !.page = page, !.t = t,
                                  !.plays = mlcache_plays,
                                  !.bound = upperBound(t, mlcache_plays[page])]
    /\ UNCHANGED << engineVars, hostVars, concVars, lifeVars >>

NextBound == BoundApply

SpecBound == InitBound /\ [][NextBound]_vars

(* ------------------------------ claims -------------------------------- *)

\* The last step of the probe was a lookup of a page (not of NULL).
Looked == last.op = "lookup" /\ last.page # NULL

HitLooked == Looked /\ last.hit

MissLooked == Looked /\ ~last.hit

InTree(q) == \E i \in 1..Len(page_tree) : page_tree[i] = q

SlotOf(q) == CHOOSE i \in 1..Len(page_tree) : page_tree[i] = q

\* C1: a hit lookup of a page with a live mapping takes its score from s to
\* s - 100 + bound(r - 1, p) - bound(r, p) * p, with p the page's play count
\* and r the value of t after the lookup's increment.
C1_HitScore ==
    (HitLooked /\ last.resident[last.page]) =>
        LET p == mlcache_plays[last.page]
            s == last.score[last.page]
        IN  /\ t = last.t + 1
            /\ mlcache_score[last.page] =
                   s - 100 + upperBound(t - 1, p) - upperBound(t, p) * p

\* A hit at round 2 or later of a resident page played twice: both bonus
\* terms count.
C1_Witness ==
    /\ HitLooked
    /\ last.resident[last.page]
    /\ mlcache_plays[last.page] = 2
    /\ last.t >= 1
    /\ last.score[last.page] # 0

\* C2: on a fresh engine one hit lookup of a resident page with score 0 and
\* play count 0 leaves t = 1, the page's play count 1 and its score
\* -100 - bound(1, 1).
C2_FreshHit ==
    ( /\ HitLooked
      /\ last.resident[last.page]
      /\ last.t = 0
      /\ last.score[last.page] = 0
      /\ last.plays[last.page] = 0 ) =>
        /\ t = 1
        /\ mlcache_plays[last.page] = 1
        /\ mlcache_score[last.page] = -100 - upperBound(1, 1)

\* C3: a miss lookup of a page with no slot of its own in the tree, or with
\* no tree at all, sets the page's score to weight_average as the lookup
\* found it.
C3_MissSeed ==
    (MissLooked /\ (~last.coll \/ ~InTree(last.page))) =>
        mlcache_score[last.page] =
            (IF last.avg = UINT_MAX THEN 0 ELSE last.avg)

\* C4: a miss lookup that finds the page's own slot with a nonzero score, in
\* a tree whose pages are all shadows, lowers the score of every other page
\* of the tree by 100 and leaves the missed page's score alone.
C4_PenalizeOthers ==
    ( /\ MissLooked
      /\ last.coll
      /\ last.match = "nonzero"
      /\ \A q \in Pages : InTree(q) => ~last.resident[q] ) =>
        /\ \A q \in Pages \ {last.page} :
               InTree(q) => mlcache_score[q] = last.score[q] - 100
        /\ mlcache_score[last.page] = last.score[last.page]

\* C5: a miss lookup whose scan finds the page's own slot with score 0 stops
\* at that slot, and every other page keeps its score.
C5_ZeroShadowFrame ==
    (MissLooked /\ last.match = "zero") =>
        /\ last.visits = SlotOf(last.page)
        /\ \A q \in Pages \ {last.page} : mlcache_score[q] = last.score[q]

\* The scan went over another shadow page, whose score is not the average,
\* before it found the missed page's slot.
C5_Witness ==
    /\ MissLooked
    /\ last.match = "zero"
    /\ \E q \in Pages \ {last.page} :
           /\ InTree(q)
           /\ SlotOf(q) < SlotOf(last.page)
           /\ ~last.resident[q]
           /\ last.score[q] # last.avg

\* C6: a hit lookup leaves the score and the play count of every other page
\* as they were, and scans no slot of the tree.
C6_HitFrame ==
    HitLooked =>
        /\ \A q \in Pages \ {last.page} :
               /\ mlcache_score[q] = last.score[q]
               /\ mlcache_plays[q] = last.plays[q]
        /\ last.visits = 0

\* A hit of a resident page that changed its score, with a tree to scan and
\* a shadow page in it.
C6_Witness ==
    /\ HitLooked
    /\ last.coll
    /\ last.resident[last.page]
    /\ mlcache_score[last.page] # last.score[last.page]
    /\ \E q \in Pages \ {last.page} : InTree(q) /\ ~last.resident[q]

\* C7: lookup after lookup from items_in_cache = 0, wrap-around included,
\* the divisor of update_average()'s division is never 0.
C7_DivisorNonZero == last.divided => last.divisor # 0

\* The lookup whose increment brought items_in_cache back to 0.
C7_Witness == last.divided /\ ToLong(last.items + 1) = 0

C9_CountersMonotonic ==
    [][hits' >= hits /\ misses' >= misses /\ t' >= t]_vars

\* C10: when mlcache_exit() returns the probe is off the tracepoint and no
\* invocation of it is under way; once the probe is off the tracepoint no
\* invocation begins.
C10_ExitDrains ==
    [][ /\ life' = "gone" =>
            (~registered' /\ \A th \in Threads : pc'[th] = "idle")
        /\ ~registered =>
            \A th \in Threads : pc[th] = "idle" => pc'[th] = "idle" ]_vars

\* mlcache_exit() has unregistered the probe and waits, an invocation being
\* under way.
C10_Witness ==
    /\ life = "exit_unreg"
    /\ \E th \in Threads : pc[th] = "probe"

\* C11: when proc_create() fails, mlcache_init() returns a failure (a nonzero
\* result) to its caller, the probe is not registered and no lookup is
\* processed.
C11_InitFailureReported ==
    life = "failed" =>
        /\ init_ret # 0
        /\ ~registered
        /\ started = 0

\* C12: a lookup never changes the score of a page without a live mapping,
\* be it the looked-up page (hit or miss) or a page the scan goes over; the
\* lookup's counters are updated all the same.
C12_DetachedNotScored ==
    Looked =>
        /\ \A q \in Pages :
               ~last.resident[q] => mlcache_score[q] = last.score[q]
        /\ t = last.t + 1
        /\ hits = last.hits + (IF last.hit THEN 1 ELSE 0)
        /\ misses = last.misses + (IF last.hit THEN 0 ELSE 1)

\* A hit lookup of a detached page, at a round and for a play count at which
\* the hit formula would have changed its score.
C12_Witness ==
    /\ HitLooked
    /\ ~last.resident[last.page]
    /\ mlcache_plays[last.page] >= 1
    /\ hits = last.hits + 1

\* C13: for step >= 1 and plays >= 1 in the operating range, bound(step,
\* plays) does not grow when plays grows and does not shrink when step
\* grows.
C13_BoundMonotonic ==
    (last.op = "bound" /\ last.t >= 1 /\ last.plays[last.page] >= 1) =>
        LET s == last.t
            n == last.plays[last.page]
        IN  /\ last.bound >= upperBound(s, n + 1)
            /\ last.bound <= upperBound(s + 1, n)
            /\ \A m \in n..MaxPlays : last.bound >= upperBound(s, m)
            /\ \A r \in s..MaxStep : last.bound <= upperBound(r, n)

\* The bound was taken where one more play lowers it and where one more
\* round raises it.
C13_Witness ==
    /\ last.op = "bound"
    /\ last.t >= 1
    /\ last.plays[last.page] >= 1
    /\ last.bound > upperBound(last.t, last.plays[last.page] + 1)
    /\ last.bound < upperBound(last.t + 1, last.plays[last.page])

\* C14: in either scan, the slots looked at since the scan began or since
\* it last yielded are never more than the batch of 4096.
C14_YieldEveryBatch ==
    \A th \in Threads : InScan(th) => loc[th].sc.run <= RESCHED_BATCH


C16_ZeroBecomesMax ==
    (last.divided /\ ToLong(last.items + 1) = 0) =>
        /\ items_in_cache = LONG_MAX
        /\ last.divisor = LONG_MAX


\* C17: once lookups run concurrently, the value update_average() divides by
\* is never 0, whatever ran between its test and its division.
C17_ObservedDivisorNonZero ==
    (started > 0 /\ last.divided) => last.divisor # 0


\* C18: a scan that is under way ends: the path leaves the read-side section
\* of update_cache_scores() and of penalize_pages(), and reaches the tail of
\* mlcache_pageget().
C18_ScanTerminates == InScan(Scanner) ~> (pc[Scanner] = "fold")

\* The scan is at a slot that holds the retry marker.
C18_Witness ==
    /\ InScan(Scanner)
    /\ loc[Scanner].sc.i <= Len(page_tree)
    /\ page_tree[loc[Scanner].sc.i] = "retry"


C20_RoundsCountLookups ==
    /\ t = last.calls
    /\ hits + misses = last.calls
    /\ (last.op = "lookup" /\ last.page = NULL) =>
           /\ hits = last.hits
           /\ misses = last.misses
           /\ t = last.t
           /\ items_in_cache = last.items
           /\ weight_average = last.avg
           /\ mlcache_score = last.score

\* A lookup with NULL made after a hit and a miss.
C20_Witness ==
    /\ last.op = "lookup"
    /\ last.page = NULL
    /\ hits >= 1
    /\ misses >= 1

=============================================================================
